---- MODULE Spec2Model ----
(***************************************************************************)
(* A model of the wwvb class of src/wwvb.h: the WWVB frame encoder, the    *)
(* frame sequencer and the per-second bit modulator, for the ATtiny85 /    *)
(* 16 MHz build with the output on OC1B.                                   *)
(*                                                                         *)
(* The object is the one of the header's minimum example, a global         *)
(* "wwvb wwvb_tx;": members without an initializer start zero-initialized. *)
(* Booleans are the integers 0 and 1, as they index pulse_width.           *)
(*                                                                         *)
(* The carrier tick is counted in units of a tenth of a second: the        *)
(* thresholds keep the proportions 0.2 / 0.5 / 0.8 / 1.0 s of the source   *)
(* (12121 / 30303 / 48485 / 60606 ticks), scaled by TickUnit.              *)
(*                                                                         *)
(* Left out: set_low() and set_high(), which only write the duty register, *)
(* set_time(dateString, timeString), which parses and calls set_time, and  *)
(* the temporary t_ss, to which addTimezone adds zero seconds.             *)
(***************************************************************************)
EXTENDS Integers, Sequences, FiniteSets, TLC

VARIABLES
    MINS, HOUR, DOTY, DUT1, YEAR, MISC,       \* the six subframes
    t_mm, t_hh, t_DD, t_MM, t_YY,             \* temp variables
    mins_, hour_, DD_, MM_, YY_, doty_,       \* stored time
    is_leap_year_, daylight_savings_,
    WWVB_LOW, WWVB_HIGH, WWVB_MARKER, WWVB_ENDOFBIT,
    pulse_width, WWVB_LOWTIME,
    OCR1,                                     \* the duty register (OCR1B)
    isr_count, frame_index, subframe_index,
    _is_active,
    pc, req, l_arg, l_leap, l_doty,           \* the main line inside set_time
    pre,                                      \* history: the time state when set_time was entered
    calls,                                    \* history: set_time calls the main line has begun
    rolls                                     \* history: minute rollovers since the last set_time

encoder == <<MINS, HOUR, DOTY, DUT1, YEAR, MISC>>
temps   == <<t_mm, t_hh, t_DD, t_MM, t_YY>>
stored  == <<mins_, hour_, DD_, MM_, YY_, doty_, is_leap_year_, daylight_savings_>>
consts  == <<WWVB_LOW, WWVB_HIGH, WWVB_MARKER, WWVB_ENDOFBIT, pulse_width>>
seqr    == <<WWVB_LOWTIME, OCR1, isr_count, frame_index, subframe_index, _is_active>>
mainl   == <<pc, req, l_arg, l_leap, l_doty, pre>>
vars    == <<encoder, temps, stored, consts, seqr, mainl, rolls, calls>>

(***************************************************************************)
(* Bounds of the model.                                                    *)
(***************************************************************************)
\* carrier ticks in a tenth of a second (6061 in the source)
TickUnit == 1
\* minute rollovers followed after a set_time
MaxRoll == 1
\* set_time calls followed statement by statement
MaxCalls == 1

(***************************************************************************)
(* Program constants.                                                      *)
(***************************************************************************)
LowTicks      == 2 * TickUnit
HighTicks     == 5 * TickUnit
MarkerTicks   == 8 * TickUnit
EndOfBitTicks == 10 * TickUnit
PWM_LOW  == 6
PWM_HIGH == 66
FrameLen == 60
U8  == 256
U16 == 65536

\* a C array of ten booleans
Arr(s) == [i \in 0..9 |-> s[i + 1]]
\* conversion of an integer to boolean
ToBool(v) == IF v # 0 THEN 1 ELSE 0

(***************************************************************************)
(* The calendar utilities of TimeDateTools.h, which the class calls: leap  *)
(* year, day of the year, and "add a time offset with carry".              *)
(***************************************************************************)
is_leap_year(y) == (y % 4 = 0 /\ y % 100 # 0) \/ y % 400 = 0

DaysInMonth(MM, leap) ==
    IF MM = 2 THEN (IF leap THEN 29 ELSE 28)
    ELSE IF MM \in {4, 6, 9, 11} THEN 30 ELSE 31

RECURSIVE DaysBefore(_, _)
DaysBefore(MM, leap) ==
    IF MM <= 1 THEN 0 ELSE DaysBefore(MM - 1, leap) + DaysInMonth(MM - 1, leap)

to_day_of_the_year(DD, MM, leap) == DaysBefore(MM, leap) + DD

\* addTimezone(ss, mm, hh, DD, MM, YY, hour, min, sec) with sec = 0
addTimezone(mm, hh, DD, MM, YY, dhour, dmin) ==
    LET m1   == mm + dmin
        h1   == hh + dhour + (m1 \div 60)
        c    == h1 \div 24
        leap == is_leap_year(2000 + YY)
        over == DD + c > DaysInMonth(MM, leap)
        D2   == IF over THEN 1 ELSE DD + c
        M1   == IF over THEN MM + 1 ELSE MM
        M2   == IF M1 > 12 THEN 1 ELSE M1
        Y2   == IF M1 > 12 THEN (YY + 1) % U8 ELSE YY
    IN  [mm |-> m1 % 60, hh |-> h1 % 24, DD |-> D2, MM |-> M2, YY |-> Y2]

(***************************************************************************)
(* FrameEncoder: the weight ladders of set_mins, set_hour, set_doty,       *)
(* set_year; each returns the array after the ladder's writes.             *)
(***************************************************************************)
\* one rung: the bit, and what is left of the value
Bit(v, w)  == IF v >= w THEN 1 ELSE 0
Rest(v, w) == IF v >= w THEN v - w ELSE v

\* set_mins with the rung of 10 not subtracted
MinsLadder_rung10(arr, v) ==
    LET r1 == Rest(v, 40)
        r2 == Rest(r1, 20)
        r5 == Rest(r2, 8)
        r6 == Rest(r5, 4)
        r7 == Rest(r6, 2)
    IN  [arr EXCEPT ![1] = Bit(v, 40), ![2] = Bit(r1, 20), ![3] = Bit(r2, 10),
                    ![5] = Bit(r2, 8), ![6] = Bit(r5, 4), ![7] = Bit(r6, 2),
                    ![8] = ToBool(r7)]

MinsLadder(arr, v) ==
    LET r1 == Rest(v, 40)
        r2 == Rest(r1, 20)
        r3 == Rest(r2, 10)
        r5 == Rest(r3, 8)
        r6 == Rest(r5, 4)
        r7 == Rest(r6, 2)
    IN  [arr EXCEPT ![1] = Bit(v, 40), ![2] = Bit(r1, 20), ![3] = Bit(r2, 10),
                    ![5] = Bit(r3, 8), ![6] = Bit(r5, 4), ![7] = Bit(r6, 2),
                    ![8] = ToBool(r7)]

\* set_hour with the tens digit written one position early
HourLadder_early(arr, v) ==
    LET r2 == Rest(v, 20)
        r3 == Rest(r2, 10)
        r5 == Rest(r3, 8)
        r6 == Rest(r5, 4)
        r7 == Rest(r6, 2)
    IN  [arr EXCEPT ![1] = Bit(v, 20), ![2] = Bit(r2, 10),
                    ![5] = Bit(r3, 8), ![6] = Bit(r5, 4), ![7] = Bit(r6, 2),
                    ![8] = ToBool(r7)]

HourLadder(arr, v) ==
    LET r2 == Rest(v, 20)
        r3 == Rest(r2, 10)
        r5 == Rest(r3, 8)
        r6 == Rest(r5, 4)
        r7 == Rest(r6, 2)
    IN  [arr EXCEPT ![2] = Bit(v, 20), ![3] = Bit(r2, 10),
                    ![5] = Bit(r3, 8), ![6] = Bit(r5, 4), ![7] = Bit(r6, 2),
                    ![8] = ToBool(r7)]

\* what set_doty leaves for the ones digit, after the rungs 200 .. 10
DotyOnes(v) == Rest(Rest(Rest(Rest(Rest(Rest(v, 200), 100), 80), 40), 20), 10)

DotyLadder(arr, v) ==
    LET r2 == Rest(v, 200)
        r3 == Rest(r2, 100)
        r5 == Rest(r3, 80)
        r6 == Rest(r5, 40)
        r7 == Rest(r6, 20)
    IN  [arr EXCEPT ![2] = Bit(v, 200), ![3] = Bit(r2, 100),
                    ![5] = Bit(r3, 80), ![6] = Bit(r5, 40), ![7] = Bit(r6, 20),
                    ![8] = Bit(r7, 10)]

\* set_doty with the ones digit written least significant bit first
Dut1Ladder_reversed(arr, v) ==
    LET r8 == DotyOnes(v)
        r0 == Rest(r8, 8)
        r1 == Rest(r0, 4)
        r2 == Rest(r1, 2)
    IN  [arr EXCEPT ![3] = Bit(r8, 8), ![2] = Bit(r0, 4), ![1] = Bit(r1, 2),
                    ![0] = ToBool(r2)]

Dut1Ladder(arr, v) ==
    LET r8 == DotyOnes(v)
        r0 == Rest(r8, 8)
        r1 == Rest(r0, 4)
        r2 == Rest(r1, 2)
    IN  [arr EXCEPT ![0] = Bit(r8, 8), ![1] = Bit(r0, 4), ![2] = Bit(r1, 2),
                    ![3] = ToBool(r2)]

\* what set_year leaves for the ones digit, after the rungs 80 .. 10
YearOnes(v) == Rest(Rest(Rest(Rest(v, 80), 40), 20), 10)

YearLadder(arr, v) ==
    LET r5 == Rest(v, 80)
        r6 == Rest(r5, 40)
        r7 == Rest(r6, 20)
    IN  [arr EXCEPT ![5] = Bit(v, 80), ![6] = Bit(r5, 40), ![7] = Bit(r6, 20),
                    ![8] = Bit(r7, 10)]

\* set_year with the ones digit taken from the whole year
MiscYearLadder_whole(arr, v) ==
    LET r0 == Rest(v, 8)
        r1 == Rest(r0, 4)
        r2 == Rest(r1, 2)
    IN  [arr EXCEPT ![0] = Bit(v, 8), ![1] = Bit(r0, 4), ![2] = Bit(r1, 2),
                    ![3] = ToBool(r2)]

MiscYearLadder(arr, v) ==
    LET r8 == YearOnes(v)
        r0 == Rest(r8, 8)
        r1 == Rest(r0, 4)
        r2 == Rest(r1, 2)
    IN  [arr EXCEPT ![0] = Bit(r8, 8), ![1] = Bit(r0, 4), ![2] = Bit(r1, 2),
                    ![3] = ToBool(r2)]

(***************************************************************************)
(* TimeState and its setters. A time state is the record of the stored     *)
(* fields and the six subframes; each setter maps a time state to the one  *)
(* it leaves.                                                              *)
(***************************************************************************)
set_mins(v, _mins) ==
    IF v.mins # _mins
    THEN [v EXCEPT !.mins = _mins, !.MINS = MinsLadder(v.MINS, _mins)]
    ELSE v

set_hour(v, _hour) ==
    IF v.hour # _hour
    THEN [v EXCEPT !.hour = _hour, !.HOUR = HourLadder(v.HOUR, _hour)]
    ELSE v

set_day(v, _DD) == IF v.DD # _DD THEN [v EXCEPT !.DD = _DD] ELSE v

set_month(v, _MM) == IF v.MM # _MM THEN [v EXCEPT !.MM = _MM] ELSE v

set_doty(v, _doty) ==
    IF v.doty # _doty
    THEN [v EXCEPT !.doty = _doty, !.DOTY = DotyLadder(v.DOTY, _doty),
                   !.DUT1 = Dut1Ladder(v.DUT1, _doty)]
    ELSE v

set_year(v, _year) ==
    IF v.YY # _year
    THEN [v EXCEPT !.YY = _year, !.YEAR = YearLadder(v.YEAR, _year),
                   !.MISC = MiscYearLadder(v.MISC, _year)]
    ELSE v

\* the first half of set_misc: the leap year indicator
set_misc_leap(v, _is_leap_year) ==
    IF v.leap # _is_leap_year
    THEN [v EXCEPT !.leap = _is_leap_year, !.MISC[5] = _is_leap_year]
    ELSE v

\* the second half of set_misc: the daylight savings code
set_misc_dst(v, _daylight_savings) ==
    IF v.dst # _daylight_savings
    THEN [v EXCEPT !.dst = _daylight_savings,
                   !.MISC[7] = (_daylight_savings \div 2) % 2,
                   !.MISC[8] = _daylight_savings % 2]
    ELSE v

set_misc(v, _is_leap_year, _daylight_savings) ==
    set_misc_dst(set_misc_leap(v, _is_leap_year), _daylight_savings)

LeapFlag(tYY) == IF is_leap_year(2000 + tYY) THEN 1 ELSE 0
\* the day of the year counted as in a common year
DotyOf_common(tDD, tMM, leap) == to_day_of_the_year(tDD, tMM, FALSE)

DotyOf(tDD, tMM, leap) == to_day_of_the_year(tDD, tMM, leap = 1)

\* the private set_time(dst), from the temporaries t = [mm, hh, DD, MM, YY]
set_time_dst(v, t, _daylight_savings) ==
    LET _is_leap_year == LeapFlag(t.YY)
        _doty == DotyOf(t.DD, t.MM, _is_leap_year)
        v1 == set_mins(v, t.mm)
        v2 == set_hour(v1, t.hh)
        v3 == set_day(v2, t.DD)
        v4 == set_month(v3, t.MM)
        v5 == set_doty(v4, _doty)
        v6 == set_year(v5, t.YY)
    IN  set_misc(v6, _is_leap_year, _daylight_savings)

(***************************************************************************)
(* The state after construction.                                           *)
(***************************************************************************)
NoTime == [mins |-> 0, hour |-> 0, DD |-> 0, MM |-> 0, YY |-> 0, dst |-> 0]

\* the time state and subframe set, as one value
View == [mins |-> mins_, hour |-> hour_, DD |-> DD_, MM |-> MM_, YY |-> YY_,
         doty |-> doty_, leap |-> is_leap_year_, dst |-> daylight_savings_,
         MINS |-> MINS, HOUR |-> HOUR, DOTY |-> DOTY, DUT1 |-> DUT1,
         YEAR |-> YEAR, MISC |-> MISC]

Init ==
    /\ MINS = Arr(<<1, 1, 1, 1, 0, 1, 1, 1, 1, 1>>)
    /\ HOUR = Arr(<<0, 0, 1, 1, 0, 1, 1, 1, 1, 1>>)
    /\ DOTY = Arr(<<0, 0, 1, 1, 0, 1, 1, 1, 1, 1>>)
    /\ DUT1 = Arr(<<1, 1, 1, 1, 0, 0, 0, 1, 0, 1>>)
    /\ YEAR = Arr(<<1, 1, 1, 1, 0, 1, 1, 1, 1, 1>>)
    /\ MISC = Arr(<<1, 1, 1, 1, 0, 1, 1, 1, 1, 1>>)
    /\ t_mm = 0 /\ t_hh = 0 /\ t_DD = 0 /\ t_MM = 0 /\ t_YY = 0
    /\ mins_ = 0 /\ hour_ = 0 /\ DD_ = 0 /\ MM_ = 0 /\ YY_ = 0 /\ doty_ = 0
    /\ is_leap_year_ = 0 /\ daylight_savings_ = 0
    /\ WWVB_LOW = 0 /\ WWVB_HIGH = 0 /\ WWVB_MARKER = 0 /\ WWVB_ENDOFBIT = 0
    /\ pulse_width = [i \in 0..2 |-> 0]
    /\ WWVB_LOWTIME = 0
    /\ OCR1 = 0
    /\ isr_count = 0 /\ frame_index = 0 /\ subframe_index = 0
    /\ _is_active = FALSE
    /\ pc = "idle" /\ req = NoTime /\ l_arg = 0 /\ l_leap = 0 /\ l_doty = 0
    /\ pre = View
    /\ rolls = 0
    /\ calls = 0

\* setup() has run: the thresholds are set
SetupDone == WWVB_ENDOFBIT # 0

(***************************************************************************)
(* setup(), start(), stop(), resume()                                      *)
(***************************************************************************)
\* the three writes of setup() to pulse_width, in order
SetupPulseWidth(pw) ==
    [[[pw EXCEPT ![0] = LowTicks] EXCEPT ![1] = HighTicks] EXCEPT ![1] = MarkerTicks]

\* set_dut1 with the magnitude positions left as they are
set_dut1_sign_only ==
    /\ DUT1' = [DUT1 EXCEPT ![7] = 1]
    /\ YEAR' = YEAR

set_dut1 ==
    /\ DUT1' = [DUT1 EXCEPT ![7] = 1]
    /\ YEAR' = [YEAR EXCEPT ![0] = 0, ![1] = 0, ![2] = 0, ![3] = 0]

setup ==
    /\ pc = "idle"
    /\ ~SetupDone
    /\ WWVB_LOW' = LowTicks
    /\ WWVB_HIGH' = HighTicks
    /\ WWVB_MARKER' = MarkerTicks
    /\ WWVB_ENDOFBIT' = EndOfBitTicks
    /\ WWVB_LOWTIME' = LowTicks
    /\ pulse_width' = SetupPulseWidth(pulse_width)
    /\ OCR1' = PWM_LOW
    /\ frame_index' = 0
    /\ subframe_index' = 0
    /\ isr_count' = 0
    /\ set_dut1
    /\ UNCHANGED <<MINS, HOUR, DOTY, MISC, temps, stored, _is_active, mainl, rolls, calls>>

\* the marker cases with the first position of every subframe added
Markers_tens == {0, 9, 10, 19, 20, 29, 30, 39, 40, 49, 50, 59}

Markers == {0, 9, 19, 29, 39, 49, 59}

\* the subframe set_lowTime() reads at frame index fi
Subframe(fi, mi, ho, dy, du, ye, ms) ==
    IF fi < 10 THEN mi
    ELSE IF fi < 20 THEN ho
    ELSE IF fi < 30 THEN dy
    ELSE IF fi < 40 THEN du
    ELSE IF fi < 50 THEN ye
    ELSE ms

\* set_lowTime(): the new WWVB_LOWTIME and subframe_index, from the frame
\* index fi, the subframe index si before the call, and the six subframes
set_lowTime(fi, si, mi, ho, dy, du, ye, ms) ==
    IF fi \in Markers
    THEN [low |-> WWVB_MARKER, sub |-> si]
    ELSE [low |-> pulse_width[Subframe(fi, mi, ho, dy, du, ye, ms)[fi % 10]],
          sub |-> fi % 10]

resume_ == _is_active' = TRUE

start ==
    /\ pc = "idle"
    /\ SetupDone
    /\ frame_index' = 0
    /\ LET r == set_lowTime(0, 0, MINS, HOUR, DOTY, DUT1, YEAR, MISC)
       IN  /\ WWVB_LOWTIME' = r.low
           /\ subframe_index' = r.sub
    /\ OCR1' = PWM_LOW
    /\ resume_
    /\ UNCHANGED <<encoder, temps, stored, consts, isr_count, mainl, rolls, calls>>

stop ==
    /\ pc = "idle"
    /\ SetupDone
    /\ _is_active' = FALSE
    /\ UNCHANGED <<encoder, temps, stored, consts, WWVB_LOWTIME, OCR1, isr_count,
                   frame_index, subframe_index, mainl, rolls, calls>>

\* resume() that begins the bit-second anew
resume_restart ==
    /\ pc = "idle"
    /\ SetupDone
    /\ resume_
    /\ isr_count' = 0
    /\ UNCHANGED <<encoder, temps, stored, consts, WWVB_LOWTIME, OCR1,
                   frame_index, subframe_index, mainl, rolls, calls>>

resume ==
    /\ pc = "idle"
    /\ SetupDone
    /\ resume_
    /\ UNCHANGED <<encoder, temps, stored, consts, WWVB_LOWTIME, OCR1, isr_count,
                   frame_index, subframe_index, mainl, rolls, calls>>

(***************************************************************************)
(* The main line and the tick callback write the time state.               *)
(***************************************************************************)
\* get_time(_mins, _hour, _DD, _MM, _YY): what the five references receive
get_time == <<mins_, hour_, DD_, MM_, YY_>>

\* the time state becomes v
Store(v) ==
    /\ mins_' = v.mins /\ hour_' = v.hour /\ DD_' = v.DD /\ MM_' = v.MM
    /\ YY_' = v.YY /\ doty_' = v.doty
    /\ is_leap_year_' = v.leap /\ daylight_savings_' = v.dst
    /\ MINS' = v.MINS /\ HOUR' = v.HOUR /\ DOTY' = v.DOTY /\ DUT1' = v.DUT1
    /\ YEAR' = v.YEAR /\ MISC' = v.MISC

\* the temporaries become t
TempsAre(t) ==
    /\ t_mm' = t.mm /\ t_hh' = t.hh /\ t_DD' = t.DD /\ t_MM' = t.MM /\ t_YY' = t.YY

\* add_time with the minutes and hours of the increment exchanged
add_time_swapped(_mins, _hour) ==
    LET t == addTimezone(mins_, hour_, DD_, MM_, YY_, 0, _hour)
    IN  /\ TempsAre(t)
        /\ Store(set_time_dst(View, t, 0))

\* add_time(_mins, _hour): get_time into the temporaries, addTimezone, set_time()
add_time(_mins, _hour) ==
    LET t == addTimezone(mins_, hour_, DD_, MM_, YY_, 0, _mins)
    IN  /\ TempsAre(t)
        /\ Store(set_time_dst(View, t, 0))

\* the times the main line sets (set_time stores the minute after)
Times ==
    { [mins |-> 36, hour |-> 12, DD |-> 15, MM |-> 6,  YY |-> 23, dst |-> 3],
      [mins |-> 58, hour |-> 10, DD |-> 15, MM |-> 6,  YY |-> 23, dst |-> 0],
      [mins |-> 58, hour |-> 23, DD |-> 31, MM |-> 1,  YY |-> 23, dst |-> 0],
      [mins |-> 58, hour |-> 23, DD |-> 28, MM |-> 2,  YY |-> 24, dst |-> 0],
      [mins |-> 58, hour |-> 23, DD |-> 31, MM |-> 12, YY |-> 0,  dst |-> 2] }

\* set_time(mins, hour, DD, MM, YY, dst) with the arguments r, run without
\* interruption
set_time_of(r) ==
    /\ pc = "idle"
    /\ LET t == addTimezone(r.mins, r.hour, r.DD, r.MM, r.YY, 0, 1)
       IN  /\ TempsAre(t)
           /\ Store(set_time_dst(View, t, r.dst))
    /\ rolls' = 0
    /\ UNCHANGED <<consts, seqr, mainl, calls>>

set_time == \E r \in Times : set_time_of(r)

(***************************************************************************)
(* interrupt_routine(): one carrier tick.                                  *)
(***************************************************************************)
\* the wrap tested on the index before its increment
FrameEnds_late(fi) == fi = FrameLen

\* ++frame_index == 60
FrameEnds(fi) == fi + 1 = FrameLen

interrupt_routine ==
    /\ SetupDone
    /\ _is_active
    /\ LET c == (isr_count + 1) % U16
       IN  IF c = WWVB_LOWTIME
           THEN /\ isr_count' = c
                /\ OCR1' = PWM_HIGH
                /\ UNCHANGED <<encoder, temps, stored, WWVB_LOWTIME, frame_index,
                               subframe_index, rolls>>
           ELSE IF c >= WWVB_ENDOFBIT
           THEN /\ OCR1' = PWM_LOW
                /\ IF FrameEnds(frame_index)
                   THEN /\ rolls < MaxRoll
                        /\ add_time(1, 0)
                        /\ frame_index' = 0
                        /\ rolls' = rolls + 1
                   ELSE /\ frame_index' = frame_index + 1
                        /\ UNCHANGED <<encoder, temps, stored, rolls>>
                /\ LET r == set_lowTime(frame_index', frame_index' % 10,
                                        MINS', HOUR', DOTY', DUT1', YEAR', MISC')
                   IN  /\ WWVB_LOWTIME' = r.low
                       /\ subframe_index' = r.sub
                /\ isr_count' = 0
           ELSE /\ isr_count' = c
                /\ UNCHANGED <<encoder, temps, stored, WWVB_LOWTIME, OCR1,
                               frame_index, subframe_index, rolls>>
    /\ UNCHANGED <<consts, _is_active, mainl, calls>>

Next == setup \/ start \/ stop \/ resume \/ set_time \/ interrupt_routine

Spec == Init /\ [][Next]_vars

(***************************************************************************)
(* set_time(mins, hour, DD, MM, YY, dst) statement by statement: the tick  *)
(* callback may run between any two of its steps. pc names the statement   *)
(* the main line executes next; req holds the arguments, l_arg the         *)
(* parameter of the setter being run, l_leap and l_doty the locals         *)
(* _is_leap_year and _doty of the private set_time.                        *)
(***************************************************************************)
\* the call, and t_mm = _mins
call_set_time ==
    /\ pc = "idle"
    /\ calls < MaxCalls
    /\ \E r \in Times : req' = r /\ t_mm' = r.mins
    /\ pre' = View
    /\ pc' = "t_hh"
    /\ calls' = calls + 1
    /\ rolls' = 0
    /\ UNCHANGED <<encoder, t_hh, t_DD, t_MM, t_YY, stored, consts, seqr,
                   l_arg, l_leap, l_doty>>

st_t_hh ==
    /\ pc = "t_hh"
    /\ t_hh' = req.hour
    /\ pc' = "t_DD"
    /\ UNCHANGED <<encoder, t_mm, t_DD, t_MM, t_YY, stored, consts, seqr,
                   req, l_arg, l_leap, l_doty, pre, rolls, calls>>

st_t_DD ==
    /\ pc = "t_DD"
    /\ t_DD' = req.DD
    /\ pc' = "t_MM"
    /\ UNCHANGED <<encoder, t_mm, t_hh, t_MM, t_YY, stored, consts, seqr,
                   req, l_arg, l_leap, l_doty, pre, rolls, calls>>

st_t_MM ==
    /\ pc = "t_MM"
    /\ t_MM' = req.MM
    /\ pc' = "t_YY"
    /\ UNCHANGED <<encoder, t_mm, t_hh, t_DD, t_YY, stored, consts, seqr,
                   req, l_arg, l_leap, l_doty, pre, rolls, calls>>

st_t_YY ==
    /\ pc = "t_YY"
    /\ t_YY' = req.YY
    /\ pc' = "addTimezone"
    /\ UNCHANGED <<encoder, t_mm, t_hh, t_DD, t_MM, stored, consts, seqr,
                   req, l_arg, l_leap, l_doty, pre, rolls, calls>>

st_addTimezone ==
    /\ pc = "addTimezone"
    /\ TempsAre(addTimezone(t_mm, t_hh, t_DD, t_MM, t_YY, 0, 1))
    /\ pc' = "is_leap_year"
    /\ UNCHANGED <<encoder, stored, consts, seqr,
                   req, l_arg, l_leap, l_doty, pre, rolls, calls>>

st_is_leap_year ==
    /\ pc = "is_leap_year"
    /\ l_leap' = LeapFlag(t_YY)
    /\ pc' = "to_day_of_the_year"
    /\ UNCHANGED <<encoder, temps, stored, consts, seqr,
                   req, l_arg, l_doty, pre, rolls, calls>>

st_to_day_of_the_year ==
    /\ pc = "to_day_of_the_year"
    /\ l_doty' = DotyOf(t_DD, t_MM, l_leap)
    /\ pc' = "set_mins"
    /\ UNCHANGED <<encoder, temps, stored, consts, seqr,
                   req, l_arg, l_leap, pre, rolls, calls>>

\* set_mins(t_mm): the comparison and mins_ = _mins
st_set_mins ==
    /\ pc = "set_mins"
    /\ l_arg' = t_mm
    /\ mins_' = IF mins_ # t_mm THEN t_mm ELSE mins_
    /\ pc' = IF mins_ # t_mm THEN "MINS" ELSE "set_hour"
    /\ UNCHANGED <<encoder, temps, hour_, DD_, MM_, YY_, doty_, is_leap_year_,
                   daylight_savings_, consts, seqr,
                   req, l_leap, l_doty, pre, rolls, calls>>

\* set_mins: the ladder
st_MINS ==
    /\ pc = "MINS"
    /\ MINS' = MinsLadder(MINS, l_arg)
    /\ pc' = "set_hour"
    /\ UNCHANGED <<HOUR, DOTY, DUT1, YEAR, MISC, temps, stored, consts, seqr,
                   req, l_arg, l_leap, l_doty, pre, rolls, calls>>

st_set_hour ==
    /\ pc = "set_hour"
    /\ l_arg' = t_hh
    /\ hour_' = IF hour_ # t_hh THEN t_hh ELSE hour_
    /\ pc' = IF hour_ # t_hh THEN "HOUR" ELSE "set_day"
    /\ UNCHANGED <<encoder, temps, mins_, DD_, MM_, YY_, doty_, is_leap_year_,
                   daylight_savings_, consts, seqr,
                   req, l_leap, l_doty, pre, rolls, calls>>

st_HOUR ==
    /\ pc = "HOUR"
    /\ HOUR' = HourLadder(HOUR, l_arg)
    /\ pc' = "set_day"
    /\ UNCHANGED <<MINS, DOTY, DUT1, YEAR, MISC, temps, stored, consts, seqr,
                   req, l_arg, l_leap, l_doty, pre, rolls, calls>>

st_set_day ==
    /\ pc = "set_day"
    /\ DD_' = IF DD_ # t_DD THEN t_DD ELSE DD_
    /\ pc' = "set_month"
    /\ UNCHANGED <<encoder, temps, mins_, hour_, MM_, YY_, doty_, is_leap_year_,
                   daylight_savings_, consts, seqr,
                   req, l_arg, l_leap, l_doty, pre, rolls, calls>>

st_set_month ==
    /\ pc = "set_month"
    /\ MM_' = IF MM_ # t_MM THEN t_MM ELSE MM_
    /\ pc' = "set_doty"
    /\ UNCHANGED <<encoder, temps, mins_, hour_, DD_, YY_, doty_, is_leap_year_,
                   daylight_savings_, consts, seqr,
                   req, l_arg, l_leap, l_doty, pre, rolls, calls>>

st_set_doty ==
    /\ pc = "set_doty"
    /\ l_arg' = l_doty
    /\ doty_' = IF doty_ # l_doty THEN l_doty ELSE doty_
    /\ pc' = IF doty_ # l_doty THEN "DOTY" ELSE "set_year"
    /\ UNCHANGED <<encoder, temps, mins_, hour_, DD_, MM_, YY_, is_leap_year_,
                   daylight_savings_, consts, seqr,
                   req, l_leap, l_doty, pre, rolls, calls>>

st_DOTY ==
    /\ pc = "DOTY"
    /\ DOTY' = DotyLadder(DOTY, l_arg)
    /\ DUT1' = Dut1Ladder(DUT1, l_arg)
    /\ pc' = "set_year"
    /\ UNCHANGED <<MINS, HOUR, YEAR, MISC, temps, stored, consts, seqr,
                   req, l_arg, l_leap, l_doty, pre, rolls, calls>>

st_set_year ==
    /\ pc = "set_year"
    /\ l_arg' = t_YY
    /\ YY_' = IF YY_ # t_YY THEN t_YY ELSE YY_
    /\ pc' = IF YY_ # t_YY THEN "YEAR" ELSE "set_misc"
    /\ UNCHANGED <<encoder, temps, mins_, hour_, DD_, MM_, doty_, is_leap_year_,
                   daylight_savings_, consts, seqr,
                   req, l_leap, l_doty, pre, rolls, calls>>

st_YEAR ==
    /\ pc = "YEAR"
    /\ YEAR' = YearLadder(YEAR, l_arg)
    /\ MISC' = MiscYearLadder(MISC, l_arg)
    /\ pc' = "set_misc"
    /\ UNCHANGED <<MINS, HOUR, DOTY, DUT1, temps, stored, consts, seqr,
                   req, l_arg, l_leap, l_doty, pre, rolls, calls>>

\* set_misc: the leap year indicator
st_set_misc ==
    /\ pc = "set_misc"
    /\ is_leap_year_' = IF is_leap_year_ # l_leap THEN l_leap ELSE is_leap_year_
    /\ MISC' = IF is_leap_year_ # l_leap THEN [MISC EXCEPT ![5] = l_leap] ELSE MISC
    /\ pc' = "daylight_savings"
    /\ UNCHANGED <<MINS, HOUR, DOTY, DUT1, YEAR, temps, mins_, hour_, DD_, MM_,
                   YY_, doty_, daylight_savings_, consts, seqr,
                   req, l_arg, l_leap, l_doty, pre, rolls, calls>>

\* set_misc: the daylight savings code, and the return of set_time
st_daylight_savings ==
    /\ pc = "daylight_savings"
    /\ daylight_savings_' = IF daylight_savings_ # req.dst THEN req.dst
                            ELSE daylight_savings_
    /\ MISC' = IF daylight_savings_ # req.dst
               THEN [MISC EXCEPT ![7] = (req.dst \div 2) % 2, ![8] = req.dst % 2]
               ELSE MISC
    /\ pc' = "idle"
    /\ UNCHANGED <<MINS, HOUR, DOTY, DUT1, YEAR, temps, mins_, hour_, DD_, MM_,
                   YY_, doty_, is_leap_year_, consts, seqr,
                   req, l_arg, l_leap, l_doty, pre, rolls, calls>>

NextIsr ==
    \/ setup \/ start \/ interrupt_routine
    \/ call_set_time \/ st_t_hh \/ st_t_DD \/ st_t_MM \/ st_t_YY
    \/ st_addTimezone \/ st_is_leap_year \/ st_to_day_of_the_year
    \/ st_set_mins \/ st_MINS \/ st_set_hour \/ st_HOUR
    \/ st_set_day \/ st_set_month \/ st_set_doty \/ st_DOTY
    \/ st_set_year \/ st_YEAR \/ st_set_misc \/ st_daylight_savings

SpecIsr == Init /\ [][NextIsr]_vars

(***************************************************************************)
(* What the claims speak of.                                               *)
(***************************************************************************)
\* a tick that ends a bit-second
EndOfBit == interrupt_routine /\ isr_count' = 0

\* the marker positions of the WWVB frame
MarkerPositions == {0, 9, 19, 29, 39, 49, 59}

\* the data bit of the frame at frame_index, by the WWVB layout
DataBit ==
    CASE frame_index \in 0..9   -> MINS[frame_index % 10]
      [] frame_index \in 10..19 -> HOUR[frame_index % 10]
      [] frame_index \in 20..29 -> DOTY[frame_index % 10]
      [] frame_index \in 30..39 -> DUT1[frame_index % 10]
      [] frame_index \in 40..49 -> YEAR[frame_index % 10]
      [] OTHER                  -> MISC[frame_index % 10]

\* the low time of the symbol at frame_index: 20%, 50%, 80% of the bit
SymbolTicks ==
    IF frame_index \in MarkerPositions THEN WWVB_MARKER
    ELSE IF DataBit = 1 THEN WWVB_HIGH
    ELSE WWVB_LOW

\* the symbol that WWVB_LOWTIME sends
Symbol ==
    CASE WWVB_LOWTIME = WWVB_MARKER -> "MARKER"
      [] WWVB_LOWTIME = WWVB_HIGH   -> "ONE"
      [] WWVB_LOWTIME = WWVB_LOW    -> "ZERO"
      [] OTHER                      -> "NONE"

\* C1: whenever set_lowTime() chooses the threshold of a bit-second (in start()
\* and at every end of bit), WWVB_LOWTIME is WWVB_LOW for a data bit 0,
\* WWVB_HIGH for a data bit 1 and WWVB_MARKER at a marker position.
C1_LowTimeBySymbol ==
    [][(start \/ EndOfBit) => WWVB_LOWTIME' = SymbolTicks']_vars

\* C2: the symbol set_lowTime() selects is MARKER exactly at the frame indices
\* 0, 9, 19, 29, 39, 49, 59, and at every other index it is the bit of the
\* subframe the index falls in.
C2_MarkerExactlyAtMarkers ==
    [][(start \/ EndOfBit) =>
          /\ (Symbol' = "MARKER") <=> (frame_index' \in MarkerPositions)
          /\ frame_index' \notin MarkerPositions =>
                Symbol' = (IF DataBit' = 1 THEN "ONE" ELSE "ZERO")]_vars

\* frame_index and subframe_index between two ticks
C3_IndexInRange == frame_index \in 0..59 /\ subframe_index = frame_index % 10

\* C3: every end of bit advances frame_index by one, from 59 to 0; between
\* ticks frame_index is within 0..59 and subframe_index is frame_index mod 10.
C3_FrameIndexCycle ==
    /\ C3_IndexInRange
    /\ [][/\ C3_IndexInRange'
          /\ EndOfBit => frame_index' = (frame_index + 1) % 60]_vars

\* a frame has wrapped from index 59 to index 0
C3_Wrapped == _is_active /\ rolls = 1 /\ frame_index = 0 /\ isr_count = 0

\* the length of month MM of year 2000 + YY, from the calendar
C4_MonthLen(MM, YY) ==
    IF MM = 2 /\ YY % 4 = 0 THEN 29
    ELSE <<31, 28, 31, 30, 31, 30, 31, 31, 30, 31, 30, 31>>[MM]

RECURSIVE C4_Ordinal(_, _, _)
C4_Ordinal(DD, MM, YY) ==
    IF MM = 1 THEN DD ELSE C4_MonthLen(MM - 1, YY) + C4_Ordinal(DD, MM - 1, YY)

C4_ValidTime ==
    /\ mins_ \in 0..59 /\ hour_ \in 0..23 /\ MM_ \in 1..12 /\ YY_ \in 0..98
    /\ DD_ \in 1..C4_MonthLen(MM_, YY_)

\* the minute after (mins, hour, DD, MM, YY), carried by cases
C4_After(mi, ho, DD, MM, YY) ==
    IF mi < 59 THEN <<mi + 1, ho, DD, MM, YY>>
    ELSE IF ho < 23 THEN <<0, ho + 1, DD, MM, YY>>
    ELSE IF DD < C4_MonthLen(MM, YY) THEN <<0, 0, DD + 1, MM, YY>>
    ELSE IF MM < 12 THEN <<0, 0, 1, MM + 1, YY>>
    ELSE <<0, 0, 1, 1, YY + 1>>

\* the bits of a decimal digit d at the weights 8, 4, 2, 1
Digit(d) == <<(d \div 8) % 2, (d \div 4) % 2, (d \div 2) % 2, d % 2>>

\* arr carries minute m: tens digit at 1..3, ones digit at 5..8, 4 unused
MinsIsBCD(arr, m) ==
    /\ <<arr[1], arr[2], arr[3]>> = SubSeq(Digit(m \div 10), 2, 4)
    /\ <<arr[5], arr[6], arr[7], arr[8]>> = Digit(m % 10)
    /\ arr[4] = 0
    /\ 40 * arr[1] + 20 * arr[2] + 10 * arr[3] = 10 * (m \div 10)
    /\ 8 * arr[5] + 4 * arr[6] + 2 * arr[7] + arr[8] = m % 10

\* arr carries hour h: tens digit at 2..3, ones digit at 5..8
HourIsBCD(arr, h) ==
    /\ <<arr[2], arr[3]>> = SubSeq(Digit(h \div 10), 3, 4)
    /\ <<arr[5], arr[6], arr[7], arr[8]>> = Digit(h % 10)
    /\ 20 * arr[2] + 10 * arr[3] + 8 * arr[5] + 4 * arr[6] + 2 * arr[7] + arr[8] = h

\* ye and ms carry year y: tens digit at YEAR[5..8], ones digit at MISC[0..3]
YearIsBCD(ye, ms, y) ==
    /\ <<ye[5], ye[6], ye[7], ye[8]>> = Digit(y \div 10)
    /\ <<ms[0], ms[1], ms[2], ms[3]>> = Digit(y % 10)
    /\ 80 * ye[5] + 40 * ye[6] + 20 * ye[7] + 10 * ye[8]
         + 8 * ms[0] + 4 * ms[1] + 2 * ms[2] + ms[3] = y

\* dy and du carry day d: hundreds at DOTY[2..3], tens at DOTY[5..8],
\* ones at DUT1[0..3]
DotyIsBCD(dy, du, d) ==
    /\ <<dy[2], dy[3]>> = SubSeq(Digit(d \div 100), 3, 4)
    /\ <<dy[5], dy[6], dy[7], dy[8]>> = Digit((d \div 10) % 10)
    /\ dy[4] = 0
    /\ <<du[0], du[1], du[2], du[3]>> = Digit(d % 10)
    /\ 200 * dy[2] + 100 * dy[3] + 80 * dy[5] + 40 * dy[6] + 20 * dy[7] + 10 * dy[8]
         + 8 * du[0] + 4 * du[1] + 2 * du[2] + du[3] = d

\* C4: the end of bit at frame_index 59 sets frame_index to 0 and, in the same
\* tick, moves a valid stored time to the minute after, with the carry into
\* hour, day, month and year, the day of the year and the leap flag of the new
\* date, and the subframes of the changed fields encoded anew; an end of bit
\* at a smaller frame_index leaves the time and the subframes alone.
C4_MinuteRollover ==
    [][EndOfBit =>
          IF frame_index = 59
          THEN /\ frame_index' = 0
               /\ C4_ValidTime =>
                     /\ <<mins_', hour_', DD_', MM_', YY_'>>
                           = C4_After(mins_, hour_, DD_, MM_, YY_)
                     /\ doty_' = C4_Ordinal(DD_', MM_', YY_')
                     /\ is_leap_year_' = (IF YY_' % 4 = 0 THEN 1 ELSE 0)
                     /\ MinsIsBCD(MINS', mins_')
                     /\ hour_' # hour_ => HourIsBCD(HOUR', hour_')
                     /\ doty_' # doty_ => DotyIsBCD(DOTY', DUT1', doty_')
                     /\ YY_' # YY_ => YearIsBCD(YEAR', MISC', YY_')
          ELSE UNCHANGED <<stored, encoder>>]_vars

\* the rollover from 31 Dec 2000 23:59 to 1 Jan 2001 00:00 has happened
C4_YearCarried ==
    /\ rolls = 1 /\ frame_index = 0 /\ isr_count = 0
    /\ mins_ = 0 /\ hour_ = 0 /\ DD_ = 1 /\ MM_ = 1 /\ YY_ = 1 /\ doty_ = 1
    /\ is_leap_year_ = 0

\* C5: in every bit-second the duty goes from low to high once, at the tick
\* where isr_count equals WWVB_LOWTIME, and from high to low once, at the tick
\* where isr_count reaches WWVB_ENDOFBIT, and at no other tick: a tick changes
\* the duty only at these two counts, the duty is low before the threshold
\* tick and high at the end of the bit.
C5_OneRiseOneFall ==
    [][interrupt_routine =>
          /\ OCR1' # OCR1 =>
                \/ OCR1' = PWM_HIGH /\ isr_count' = WWVB_LOWTIME
                \/ OCR1' = PWM_LOW /\ isr_count + 1 = WWVB_ENDOFBIT
          /\ isr_count' = WWVB_LOWTIME => OCR1 = PWM_LOW /\ OCR1' = PWM_HIGH
          /\ EndOfBit => OCR1 = PWM_HIGH /\ OCR1' = PWM_LOW]_vars

(***************************************************************************)
(* The encoder over its whole domain: set_time with every minute, hour,    *)
(* day of the year and year, each after every other.                       *)
(***************************************************************************)
\* the number of times set
EncInputs == 366

\* the date with ordinal d, searched from month MM on
RECURSIVE DateOf(_, _, _)
DateOf(d, MM, YY) ==
    IF MM = 12 \/ d <= C4_MonthLen(MM, YY) THEN [DD |-> d, MM |-> MM]
    ELSE DateOf(d - C4_MonthLen(MM, YY), MM + 1, YY)

\* the i-th time: minute i mod 60, hour i mod 24, year (i + 3) mod 100, and
\* the day (i mod 366) + 1 of that year (its last day, if it has no such day)
EncTime(i) ==
    LET YY == (i + 3) % 100
        len == IF YY % 4 = 0 THEN 366 ELSE 365
        d == IF (i % 366) + 1 > len THEN len ELSE (i % 366) + 1
        date == DateOf(d, 1, YY)
    IN  [mins |-> i % 60, hour |-> i % 24, DD |-> date.DD, MM |-> date.MM,
         YY |-> YY, dst |-> i % 4]

set_time_enc == \E i \in 0..(EncInputs - 1) : set_time_of(EncTime(i))

NextEnc == setup \/ set_time_enc

SpecEnc == Init /\ [][NextEnc]_vars

\* C7: when set_mins(m) encodes anew, MINS[1..3] are the 40, 20, 10 bits of the
\* tens digit of m, MINS[5..8] the 8, 4, 2, 1 bits of its ones digit, and
\* MINS[4] is 0.
C7_MinsEncoded ==
    [][mins_' # mins_ => mins_' \in 0..59 /\ MinsIsBCD(MINS', mins_')]_vars

\* minute 37 is encoded: 20, 10, 4, 2, 1 set and 40, 8 clear
C7_Mins37 == mins_ = 37 /\ MINS = Arr(<<1, 0, 1, 1, 0, 0, 1, 1, 1, 1>>)

\* the positions of HOUR that carry nothing
C8_HourUnused == HOUR[0] = 0 /\ HOUR[1] = 0 /\ HOUR[4] = 0

\* C8: when set_hour(h) encodes anew, HOUR[2..3] are the 20, 10 bits of the
\* tens digit of h and HOUR[5..8] the bits of its ones digit; HOUR[0], HOUR[1]
\* and HOUR[4] are 0 in every state.
C8_HourEncoded ==
    /\ C8_HourUnused
    /\ [][/\ C8_HourUnused'
          /\ hour_' # hour_ => hour_' \in 0..23 /\ HourIsBCD(HOUR', hour_')]_vars

\* hour 23 is encoded
C8_Hour23 == hour_ = 23 /\ HOUR = Arr(<<0, 0, 1, 0, 0, 0, 0, 1, 1, 1>>)

\* C9: when set_year(y) encodes anew, YEAR[5..8] are the 80, 40, 20, 10 bits of
\* the tens digit of y and MISC[0..3] the 8, 4, 2, 1 bits of its ones digit.
C9_YearEncoded ==
    [][YY_' # YY_ => YY_' \in 0..99 /\ YearIsBCD(YEAR', MISC', YY_')]_vars

\* year 99 is encoded
C9_Year99 ==
    /\ YY_ = 99
    /\ <<YEAR[5], YEAR[6], YEAR[7], YEAR[8]>> = <<1, 0, 0, 1>>
    /\ <<MISC[0], MISC[1], MISC[2], MISC[3]>> = <<1, 0, 0, 1>>

\* C10: when set_doty(d) encodes anew, DOTY[2..3] are the 200, 100 bits of the
\* hundreds digit of d, DOTY[5..8] the bits of its tens digit, DOTY[4] is 0
\* and DUT1[0..3] are the bits of its ones digit.
C10_DotyEncoded ==
    [][doty_' # doty_ => doty_' \in 1..366 /\ DotyIsBCD(DOTY', DUT1', doty_')]_vars

\* day 366 is encoded
C10_Doty366 ==
    /\ doty_ = 366
    /\ <<DOTY[2], DOTY[3], DOTY[4]>> = <<1, 1, 0>>
    /\ <<DOTY[5], DOTY[6], DOTY[7], DOTY[8]>> = <<0, 1, 1, 0>>
    /\ <<DUT1[0], DUT1[1], DUT1[2], DUT1[3]>> = <<0, 1, 1, 0>>

\* what set_time leaves of the time state pre, run alone with the arguments r
AfterSetTime(v, r) ==
    set_time_dst(v, addTimezone(r.mins, r.hour, r.DD, r.MM, r.YY, 0, 1), r.dst)

\* C6: a tick callback that ends a bit while the main line is inside set_time
\* finds the time state and the subframes either as they were when set_time
\* was entered or as set_time leaves them, never a mix of the two.
C6_AtomicObservation ==
    [][(EndOfBit /\ pc # "idle") => View \in {pre, AfterSetTime(pre, req)}]_vars

(***************************************************************************)
(* The constant positions of the frame.                                    *)
(***************************************************************************)
\* the DUT1 sign is negative and the DUT1 magnitude is zero
C11_Dut1Fixed ==
    /\ <<DUT1[6], DUT1[7], DUT1[8]>> = <<0, 1, 0>>
    /\ <<YEAR[0], YEAR[1], YEAR[2], YEAR[3]>> = <<0, 0, 0, 0>>

\* C11: once setup() has run, the DUT1 sign positions DUT1[6..8] are (0, 1, 0)
\* and the DUT1 magnitude positions YEAR[0..3] are 0 in every state, and no
\* step of set_time, of a minute rollover or of a tick changes them.
C11_Dut1Constant ==
    /\ SetupDone => C11_Dut1Fixed
    /\ [][/\ SetupDone' => C11_Dut1Fixed'
          /\ SetupDone => UNCHANGED <<DUT1[6], DUT1[7], DUT1[8],
                                      YEAR[0], YEAR[1], YEAR[2], YEAR[3]>>]_vars

\* a rollover into 1 Jan has written the ones digit of the day into DUT1[0..3]
\* and the year into YEAR[5..8], next to the constant positions
C11_OnesDigitVaried ==
    /\ SetupDone /\ rolls = 1 /\ doty_ = 1 /\ YY_ = 1
    /\ <<DUT1[0], DUT1[1], DUT1[2], DUT1[3]>> = <<0, 0, 0, 1>>
    /\ <<YEAR[5], YEAR[6], YEAR[7], YEAR[8]>> = <<0, 0, 0, 0>>
    /\ C11_Dut1Fixed

\* C12: once setup() has run, the leap second warning MISC[6] is 0 in every
\* state, and the symbol chosen for frame_index 56 is that of a data bit 0.
C12_LeapSecondWarningZero ==
    /\ SetupDone => MISC[6] = 0
    /\ [][/\ SetupDone' => MISC'[6] = 0
          /\ (EndOfBit /\ frame_index' = 56) => WWVB_LOWTIME' = WWVB_LOW]_vars

\* a completed set_time, or a minute rollover
TimeSet == set_time \/ (EndOfBit /\ frame_index = 59)

\* C13: after a completed set_time and after a minute rollover, MISC[5] is the
\* stored leap year flag and MISC[7], MISC[8] are the high and the low bit of
\* the stored daylight savings code.
C13_MiscFlags ==
    [][TimeSet => /\ MISC'[5] = is_leap_year_'
                  /\ MISC'[7] = (daylight_savings_' \div 2) % 2
                  /\ MISC'[8] = daylight_savings_' % 2]_vars

\* the position in the frame and in the bit, the time state and the subframes
C14_Kept ==
    <<frame_index, subframe_index, isr_count, WWVB_LOWTIME, stored, encoder>>

\* C14: stop() clears is_active and resume() sets it, and both leave
\* frame_index, subframe_index, isr_count, WWVB_LOWTIME, the time state and
\* the subframes as they are; start() sets is_active; and while the
\* transmitter stays stopped no tick moves the position in the frame, so that
\* resume() continues the bit where stop() left it.
C14_StopResumeKeeps ==
    [][/\ stop => (~_is_active' /\ UNCHANGED C14_Kept)
       /\ resume => (_is_active' /\ UNCHANGED C14_Kept)
       /\ start => _is_active'
       /\ (SetupDone /\ ~_is_active /\ ~_is_active') =>
             UNCHANGED <<frame_index, subframe_index, isr_count, WWVB_LOWTIME>>]_vars

\* the transmitter is stopped in the middle of a bit-second of the HOUR
\* subframe, with the carrier at full power
C14_StoppedMidBit ==
    /\ SetupDone /\ ~_is_active
    /\ frame_index = 17 /\ subframe_index = 7 /\ isr_count = 3 * TickUnit
    /\ OCR1 = PWM_HIGH

(***************************************************************************)
(* Setting and reading the time.                                           *)
(***************************************************************************)
\* C15: set_time(minute, hour, day, month, year) followed by get_time, with no
\* end of frame between the two, returns the minute, hour, day, month and year
\* that were supplied.
C15_SetTimeAbsolute ==
    [][\A r \in Times :
          set_time_of(r) => get_time' = <<r.mins, r.hour, r.DD, r.MM, r.YY>>]_vars

\* the data positions of every subframe carry the stored field
C16_AllEncoded ==
    /\ MinsIsBCD(MINS, mins_)
    /\ HourIsBCD(HOUR, hour_)
    /\ DotyIsBCD(DOTY, DUT1, doty_)
    /\ YearIsBCD(YEAR, MISC, YY_)

\* C16: after a completed set_time and after a minute rollover, from the
\* initial fields and arrays on, the data positions of MINS, HOUR, DOTY with
\* DUT1[0..3] and YEAR[5..8] with MISC[0..3] are the encoding of the stored
\* mins_, hour_, doty_ and YY_, as if every field were encoded on every call.
C16_ChangeDetectionUnobservable ==
    [][TimeSet => C16_AllEncoded']_vars

\* the first and the last position of every subframe
C17_EdgePositions == {fi \in 0..59 : fi % 10 \in {0, 9}}

\* the first position of the subframes after MINS
C17_FirstPositions == {10, 20, 30, 40, 50}

\* C17 as stated: at position 0 and at position 9 of every subframe
\* (frame_index 0, 10, .., 50 and 9, 19, .., 59) the symbol chosen is MARKER.
C17_EdgesAreMarkers ==
    [][(start \/ EndOfBit) =>
          (frame_index' \in C17_EdgePositions => WWVB_LOWTIME' = WWVB_MARKER)]_vars

\* C17, amended: at frame_index 0, 9, 19, 29, 39, 49, 59 (position 0 of MINS
\* and position 9 of every subframe) the threshold chosen is WWVB_MARKER
\* whatever the arrays hold; at frame_index 10, 20, 30, 40, 50 (position 0 of
\* HOUR, DOTY, DUT1, YEAR, MISC) it is pulse_width of the stored value, and a
\* stored 0 is sent as a ZERO, not as a MARKER.
C17_MarkersNotFirstPositions ==
    [][(start \/ EndOfBit) =>
          /\ frame_index' \in MarkerPositions => WWVB_LOWTIME' = WWVB_MARKER
          /\ frame_index' \in C17_FirstPositions =>
                /\ WWVB_LOWTIME' = pulse_width[DataBit']
                /\ DataBit' = 0 => (WWVB_LOWTIME' = WWVB_LOW /\ Symbol' = "ZERO")]_vars

\* position 0 of DUT1, the 8 of the ones digit of the day, has been chosen
\* for sending with a stored 0 and the threshold of a ZERO
C17_Dut1FirstPositionZero ==
    /\ _is_active /\ frame_index = 30 /\ isr_count = 0
    /\ doty_ = 166 /\ DUT1[0] = 0
    /\ WWVB_LOWTIME = WWVB_LOW

\* the stored day of the year and leap year flag are those of the stored date
C18_Consistent ==
    /\ is_leap_year_ = (IF YY_ % 4 = 0 THEN 1 ELSE 0)
    /\ doty_ = C4_Ordinal(DD_, MM_, YY_)

\* C18: after a completed set_time and after a minute rollover, and after any
\* step that changes DD_, MM_ or YY_, is_leap_year_ is the leap year flag of
\* 2000 + YY_ and doty_ is the ordinal day of (DD_, MM_) in that year.
C18_DerivedConsistent ==
    [][(TimeSet \/ <<DD_, MM_, YY_>>' # <<DD_, MM_, YY_>>) =>
          (C4_ValidTime' => C18_Consistent')]_vars

\* a rollover has carried 28 Feb 2024 23:59 into the leap day
C18_LeapDayReached ==
    /\ rolls = 1 /\ mins_ = 0 /\ hour_ = 0
    /\ DD_ = 29 /\ MM_ = 2 /\ YY_ = 24
    /\ doty_ = 60 /\ is_leap_year_ = 1

\* C19: a minute rollover leaves the stored daylight savings code, and the
\* positions MISC[7], MISC[8] that carry it, as they were.
C19_RolloverKeepsDst ==
    [][(EndOfBit /\ frame_index = 59) =>
          /\ daylight_savings_' = daylight_savings_
          /\ MISC'[7] = MISC[7]
          /\ MISC'[8] = MISC[8]]_vars

\* C20: when the main line's set_time returns, whatever ticks have preempted
\* it, the stored time, day of the year, leap year flag and daylight savings
\* code are those set_time stores for its arguments when it runs alone.
C20_NoLostUpdate ==
    [][(pc # "idle" /\ pc' = "idle") =>
          LET a == AfterSetTime(pre, req)
          IN  <<mins_', hour_', DD_', MM_', YY_', doty_', is_leap_year_',
                daylight_savings_'>>
                 = <<a.mins, a.hour, a.DD, a.MM, a.YY, a.doty, a.leap, a.dst>>]_vars

(***************************************************************************)
(* The bit-second that start() begins.                                     *)
(***************************************************************************)
\* C21: start() begins the frame at a bit boundary: it leaves frame_index 0
\* with the MARKER threshold, the carrier at reduced power and the tick counter
\* isr_count at 0, so that the first bit-second lasts WWVB_ENDOFBIT ticks and
\* its rise comes WWVB_MARKER ticks after start().
C21_StartAtBitBoundary ==
    [][start => /\ frame_index' = 0
                /\ WWVB_LOWTIME' = WWVB_MARKER
                /\ OCR1' = PWM_LOW
                /\ isr_count' = 0]_vars
====
